---- MODULE Spec2Model ----
(***************************************************************************)
(* Model of the GitHub analytics collection pipeline:                      *)
(*   - DatabaseManager.merge_formatted_stats_data and the fold of          *)
(*     DatabaseManager.retrieve_collection        (src/db_manager.py)      *)
(*   - GitHubStatsAnalysis.load_formatted_stats_data of the retrieved file *)
(*                                          (src/github_stats_analysis.py) *)
(*   - GitHubStatsData.fetch_repo_data, the day/page fetch loop            *)
(*                                                (src/github_stats_data.py)*)
(*   - format_fetched_repo_data_for_stat_analysis, the TDD / DevOps        *)
(*     classification of one repository          (src/github_stats_data.py)*)
(*   - Producer.publish, the split of the days among the consumers         *)
(*                                    (src/producer-consumer/producer.py)  *)
(* Calendar dates are integers (a later day is a larger number): the code  *)
(* compares 'YYYY-MM-DD' strings, whose order is the calendar order.       *)
(***************************************************************************)
EXTENDS Integers, Sequences, FiniteSets, TLC

VARIABLES
    \* ---- DatabaseManager.retrieve_collection ----
    db_repo_stats_data,   \* repo_stats_data, the accumulator of the fold
    existing_data,        \* first argument of the last merge call
    new_data,             \* second argument of the last merge call (the doc)
    num_docs,             \* documents taken from the cursor so far
    retrieve_pc,          \* "fold" | "dumped" | "nothing" | "TypeError" | "loaded"
    existing_data_after,  \* the object passed as existing_data, as the last merge call left it
    result_refs,          \* which objects of the caller the returned value is made of
    dumped_file,          \* the .json file retrieve_collection has written
    formatted_repo_data,  \* GitHubStatsAnalysis.formatted_repo_data
    \* ---- Producer.publish ----
    num_days,             \* total number of days to fetch
    num_consumers,        \* number of consumers
    publish_start_date,   \* start_date, a datetime
    consumer_id,          \* loop variable of publish
    consumer_start_date,  \* local of the last iteration, a datetime
    consumer_split_num_days, \* local of the last iteration
    sent,                 \* tasks sent to the topic, in order
    publish_pc,           \* "loop" | "done" | "TypeError"
    \* ---- GitHubStatsData (one task run) ----
    start_date,           \* self.start_date
    num_days_fetch,       \* self.num_days_fetch
    num_data_fetched,     \* self.graph_gl_api_repo.num_data_fetched (page size)
    has_db_manager,       \* init_db() was called: self.db_manager is not None
    pc,                   \* where fetch_repo_data stands (the next request, a pause, the end)
    day,                  \* loop variable of fetch_repo_data
    attempt,              \* first-page attempts made for this day (loop at line 351)
    page_iter,            \* iterations completed of the pagination loop (line 366)
    response,             \* self.graph_gl_api_repo.response
    page_info,            \* self.graph_gl_api_repo.page_info
    repo_stats_data,      \* self.repo_stats_data
    todo,                 \* edges of the page being formatted, from the current one on
    format_from,          \* caller of the running format call: "first" (359) | "page" (376)
    fetch_attempt,        \* attempts made by fetch_repo_commit_and_actions_data
    result,               \* its local variable result
    date_range_commit_data, \* commit messages returned for the repository being formatted
    files,                \* checkpoint files written: [msg, date]
    db_docs,              \* documents inserted into the collection
    \* ---- what happened so far (read by the properties only) ----
    first_done,           \* days whose first page was passed to formatting
    commit_fetches,       \* per repository: calls fetching its commit history
    workflow_fetches,     \* per repository: calls fetching its workflow files
    record_writes,        \* per repository: writes of its record
    fetch_ok,             \* the last commit / workflow response had status 200
    commit_ok,            \* ... the one whose result became date_range_commit_data
    partial_writes,       \* repositories recorded after a commit / workflow fetch without a 200 response
    tries,                \* attempts made of the repository query that has not yet been answered 200
    failed_first,         \* first-page responses of this day that were not 200
    rate_limited_formatted, \* a RATE_LIMITED response was passed to formatting
    queried,              \* the dates of the repository queries, each once, in order
    pages_today,          \* result pages of this day passed to formatting
    quota_misjudged,      \* a commit / workflow response with status 200 was rate-limited
                          \* and no pause followed, or was not and a pause followed
    \* ---- format_fetched_repo_data_for_stat_analysis, one repository ----
    classify_pc,          \* "idle" | "format" | "formatted"
    fetched_repo,         \* the repository node, with the data fetched for it
    formatted_record      \* the record written for it

merge_vars ==
    <<db_repo_stats_data, existing_data, new_data, num_docs, retrieve_pc,
      existing_data_after, result_refs, dumped_file, formatted_repo_data>>

publish_vars ==
    <<num_days, num_consumers, publish_start_date, consumer_id, consumer_start_date,
      consumer_split_num_days, sent, publish_pc>>

task_vars == <<start_date, num_days_fetch, num_data_fetched, has_db_manager>>

fetch_vars ==
    <<pc, day, attempt, page_iter, response, page_info, repo_stats_data, todo,
      format_from, fetch_attempt, result, date_range_commit_data, files, db_docs,
      first_done, commit_fetches, workflow_fetches, record_writes, fetch_ok,
      commit_ok, partial_writes, tries, failed_first, rate_limited_formatted,
      queried, pages_today, quota_misjudged>>

classify_vars == <<classify_pc, fetched_repo, formatted_record>>

vars == <<merge_vars, task_vars, fetch_vars, publish_vars, classify_vars>>

(***************************************************************************)
(* Bounds of the model                                                     *)
(***************************************************************************)
MaxDate == 4     \* dates are 1..MaxDate; task start dates are 2..MaxDate
MaxDocs == 3     \* documents folded by one retrieve_collection
MaxDays == 2     \* num_days_fetch of a task is 1..MaxDays
MaxCount == 2    \* the per-repository counters of a task run stop at MaxCount

(***************************************************************************)
(* Values                                                                  *)
(***************************************************************************)
NoDate == 0                          \* Python None in a date slot
NoneValue == [tag |-> "None"]        \* Python None returned in place of a dict
EmptyDict == [tag |-> "empty"]       \* dict()

IsDoc(d) == d.tag = "doc"

Max2(a, b) == IF a >= b THEN a ELSE b

\* max(date_range) of a (start, end) pair
MaxOfRange(date_range) == Max2(date_range[1], date_range[2])

\* max([max(date_range) for date_range in date_ranges])
MaxOfRanges(date_ranges) ==
    CHOOSE m \in {MaxOfRange(date_ranges[i]) : i \in DOMAIN date_ranges} :
        \A i \in DOMAIN date_ranges : MaxOfRange(date_ranges[i]) <= m

\* GitHubStatsData.get_date_str: the date num_days_before days before start_date
get_date_str(start, num_days_before) == start - num_days_before

(***************************************************************************)
(* Documents a completed worker inserts (save_repo_stats_data, COMPLETE).  *)
(* The snapshot's range is [start, start - (num_days_fetch - 1)]; every    *)
(* repository record carries (start, start - num_days_fetch).              *)
(***************************************************************************)
RepoRecord(start, n_days, obs) ==
    [dateRange               |-> <<<<start, get_date_str(start, n_days)>>>>,
     totalCommitsInDateRange |-> obs.commits,
     totalRepoCommits        |-> obs.total,
     isTDD                   |-> obs.isTDD,
     isDevOps                |-> obs.isDevOps,
     languages               |-> obs.languages]

WorkerDoc(start, n_days, count, observed) ==
    [tag            |-> "doc",
     dateRange      |-> <<<<start, get_date_str(start, n_days - 1)>>>>,
     totalRepoCount |-> count,
     repos          |-> [r \in DOMAIN observed |->
                            RepoRecord(start, n_days, observed[r])]]

\* what a worker may have recorded about the repositories it saw
ObsA1 == [commits |-> 3, total |-> 10, isTDD |-> FALSE, isDevOps |-> FALSE,
          languages |-> ("Python" :> [fileSize |-> 5])]
ObsA2 == [commits |-> 2, total |-> 12, isTDD |-> TRUE, isDevOps |-> TRUE,
          languages |-> ("Python" :> [fileSize |-> 7]) @@ ("Go" :> [fileSize |-> 1])]
ObsB1 == [commits |-> 1, total |-> 4, isTDD |-> TRUE, isDevOps |-> FALSE,
          languages |-> ("Go" :> [fileSize |-> 2])]
ObsB2 == [commits |-> 0, total |-> 6, isTDD |-> FALSE, isDevOps |-> FALSE,
          languages |-> <<>>]

Observations ==
    { [count |-> 5, repos |-> ("alice/repo1" :> ObsA1)],
      [count |-> 2, repos |-> ("alice/repo1" :> ObsA2) @@ ("bob/repo2" :> ObsB1)],
      [count |-> 1, repos |-> ("bob/repo2" :> ObsB2)] }

StoredDocs ==
    UNION { { WorkerDoc(s, n, o.count, o.repos) : n \in 1..(s - 1), o \in Observations } :
            s \in 2..MaxDate }

(***************************************************************************)
(* DatabaseManager.is_date_range_valid                                     *)
(***************************************************************************)
is_date_range_valid(existing_dates_arr, new_dates_arr) ==
    /\ new_dates_arr[2] # NoDate
    /\ ~ \E i \in DOMAIN existing_dates_arr :
            \/ /\ new_dates_arr[2] <= existing_dates_arr[i][1]
               /\ existing_dates_arr[i][1] <= new_dates_arr[1]
            \/ /\ new_dates_arr[2] <= existing_dates_arr[i][2]
               /\ existing_dates_arr[i][2] <= new_dates_arr[1]

\* all([is_date_range_valid(existing, date_range) for date_range in new])
all_date_ranges_valid(existing_dates_arr, new_dates_arrs) ==
    \A j \in DOMAIN new_dates_arrs :
        is_date_range_valid(existing_dates_arr, new_dates_arrs[j])

\* variants of the merge that leave out one of its effects
merge_existing_repo_skipped(existing_repo, new_repo) == existing_repo

merge_repos_existing_only(existing_repos, new_repos) == existing_repos

merge_keeps_existing(existing, new) == existing

(***************************************************************************)
(* DatabaseManager.merge_formatted_stats_data                              *)
(***************************************************************************)
\* lines 162-184: a repository present in both datasets
merge_existing_repo(existing_repo, new_repo) ==
    IF all_date_ranges_valid(existing_repo.dateRange, new_repo.dateRange)
    THEN LET date_range == existing_repo.dateRange \o new_repo.dateRange
             \* line 177: evaluated after line 166 has extended the list
             is_more_current ==
                 MaxOfRange(new_repo.dateRange[1]) > MaxOfRanges(date_range)
         IN [dateRange |-> date_range,
             totalCommitsInDateRange |->
                 existing_repo.totalCommitsInDateRange + new_repo.totalCommitsInDateRange,
             totalRepoCommits |->
                 IF is_more_current THEN new_repo.totalRepoCommits
                                    ELSE existing_repo.totalRepoCommits,
             isTDD    |-> existing_repo.isTDD \/ new_repo.isTDD,
             isDevOps |-> existing_repo.isDevOps \/ new_repo.isDevOps,
             languages |->
                 IF is_more_current
                 THEN [l \in DOMAIN existing_repo.languages \cup DOMAIN new_repo.languages |->
                          IF l \in DOMAIN new_repo.languages
                          THEN new_repo.languages[l] ELSE existing_repo.languages[l]]
                 ELSE existing_repo.languages]
    ELSE existing_repo

\* lines 157-184: the loop over new_data['repos']
merge_repos(existing_repos, new_repos) ==
    [r \in DOMAIN existing_repos \cup DOMAIN new_repos |->
        IF r \notin DOMAIN new_repos THEN existing_repos[r]
        ELSE IF r \notin DOMAIN existing_repos THEN new_repos[r]
        ELSE merge_existing_repo(existing_repos[r], new_repos[r])]

\* which branch of the if / elif the call takes
merge_branch(existing, new) ==
    IF ~IsDoc(existing) THEN "init"
    ELSE IF all_date_ranges_valid(existing.dateRange, new.dateRange) THEN "merged"
    ELSE "none"

\* line 154
merged_date_range(existing, new) == existing.dateRange \o existing.dateRange

merge_formatted_stats_data(existing, new) ==
    CASE merge_branch(existing, new) = "init"   -> new
      [] merge_branch(existing, new) = "merged" ->
            [tag            |-> "doc",
             dateRange      |-> merged_date_range(existing, new),
             totalRepoCount |-> existing.totalRepoCount + new.totalRepoCount,
             repos          |-> merge_repos(existing.repos, new.repos)]
      [] OTHER -> NoneValue   \* no return statement is reached

\* lines 153-184 assign into existing_data: the value of the caller's object
\* after the call
existing_data_after_merge(existing, new) ==
    IF merge_branch(existing, new) = "merged"
    THEN merge_formatted_stats_data(existing, new)
    ELSE existing

\* lines 150, 160, 185: the object that is returned, and the repositories
\* whose record in it is the record object of new_data
NoRefs == [object |-> "none", repos |-> {}]

returned_references(existing, new) ==
    CASE merge_branch(existing, new) = "init" ->
            [object |-> "new_data", repos |-> DOMAIN new.repos]
      [] merge_branch(existing, new) = "merged" ->
            [object |-> "existing_data", repos |-> DOMAIN new.repos \ DOMAIN existing.repos]
      [] OTHER -> [object |-> "None", repos |-> {}]

(***************************************************************************)
(* Program constants of GitHubStatsData                                    *)
(***************************************************************************)
MAX_DAYS_FETCHED == 365
NUM_API_QUERY_ATTEMPTS == 3
MAX_DAILY_REPOS_FETCHED == 1000
COMPLETED_MSG == "COMPLETE"

\* page sizes a task may be given (num_repos_fetched)
PageSizes == {1000}

\* int(ceil(MAX_DAILY_REPOS_FETCHED / num_data_fetched)), line 366
MaxPagesPerDay(page_size) == (MAX_DAILY_REPOS_FETCHED + page_size - 1) \div page_size

(***************************************************************************)
(* Text: a str is the sequence of its characters.  The state holds texts   *)
(* by name; Chars gives the characters of the texts the data source of     *)
(* this model returns.                                                     *)
(***************************************************************************)
LowerCase == <<"a", "b", "c", "d", "e", "f", "g", "h", "i", "j", "k", "l", "m",
               "n", "o", "p", "q", "r", "s", "t", "u", "v", "w", "x", "y", "z">>
UpperCase == <<"A", "B", "C", "D", "E", "F", "G", "H", "I", "J", "K", "L", "M",
               "N", "O", "P", "Q", "R", "S", "T", "U", "V", "W", "X", "Y", "Z">>

Chars(text) ==
    CASE text = "tdd" -> <<"t", "d", "d">>
      [] text = "ci.yml" -> <<"c", "i", ".", "y", "m", "l">>
      [] text = "add unit tests" ->
            <<"a", "d", "d", " ", "u", "n", "i", "t", " ", "t", "e", "s", "t", "s">>
      [] text = "fix typo" -> <<"f", "i", "x", " ", "t", "y", "p", "o">>
      [] text = "deploy.yml" -> <<"d", "e", "p", "l", "o", "y", ".", "y", "m", "l">>
      [] text = "devops" -> <<"d", "e", "v", "o", "p", "s">>
      [] text = "Tdd-kata" -> <<"T", "d", "d", "-", "k", "a", "t", "a">>

\* str.upper()
upper(chars) ==
    [i \in DOMAIN chars |->
        IF \E k \in DOMAIN LowerCase : LowerCase[k] = chars[i]
        THEN UpperCase[CHOOSE k \in DOMAIN LowerCase : LowerCase[k] = chars[i]]
        ELSE chars[i]]

\* t_str in chars
is_substring(t_str, chars) ==
    \E i \in 0..(Len(chars) - Len(t_str)) : SubSeq(chars, i + 1, i + Len(t_str)) = t_str

TDD_STR_MATCHES ==
    << <<"T", "D", "D">>,
       <<"B", "D", "D">>,
       <<"T", "E", "S", "T", "-", "D", "R", "I", "V", "E", "N">>,
       <<"B", "E", "H", "A", "V", "I", "O", "R", "-", "D", "R", "I", "V", "E", "N">>,
       <<"U", "N", "I", "T", " ", "T", "E", "S", "T">>,
       <<"T", "E", "S", "T", "-">>,
       <<"C", "O", "D", "E", " ", "C", "O", "V">> >>

DEVOPS_STR_MATCHES ==
    << <<"D", "E", "V", "O", "P", "S">>,
       <<"C", "I">>,
       <<"C", "I", "/", "C", "D">>,
       <<"C", "D">>,
       <<"C", "O", "N", "T", "I", "N", "U", "O", "U", "S", " ",
         "I", "N", "T", "E", "G", "R", "A", "T", "I", "O", "N">>,
       <<"C", "O", "N", "T", "I", "N", "U", "O", "U", "S", " ", "D", "E">>,
       <<"A", "C", "T", "I", "O", "N", "S">>,
       <<"I", "A", "C">>,
       <<"I", "A", "A", "S">>,
       <<"P", "A", "A", "S">>,
       <<"K", "U", "B", "E", "R", "N", "E", "T", "E", "S">>,
       <<"A", "N", "S", "I", "B", "L", "E">>,
       <<"T", "E", "R", "R", "A", "F", "O", "R", "M">>,
       <<"A", "U", "T", "O", "M", "A">>,
       <<".", "Y", "M", "L">> >>

\* any([any([t_str in data_element.upper() for t_str in matches]) for data_element in fetched_data])
any_key_word(matches, fetched_data) ==
    \E e \in DOMAIN fetched_data : \E k \in DOMAIN matches :
        is_substring(matches[k], upper(Chars(fetched_data[e])))

\* GitHubStatsData.search_fetched_data_for_tdd_key_words: the value of isTDD after the call
search_fetched_data_for_tdd_key_words(isTDD, fetched_data) ==
    IF ~isTDD THEN any_key_word(TDD_STR_MATCHES, fetched_data) ELSE isTDD

\* a variant that looks for DevOps key words whatever isTDD is
devop_key_words_without_tdd(isTDD, isDevOps, fetched_data, is_workflow) ==
    isDevOps \/ any_key_word(IF is_workflow
                             THEN SubSeq(DEVOPS_STR_MATCHES, 1, Len(DEVOPS_STR_MATCHES) - 1)
                             ELSE DEVOPS_STR_MATCHES,
                             fetched_data)

\* GitHubStatsData.search_fetched_data_for_devop_key_words: the value of isDevOps after the call
search_fetched_data_for_devop_key_words(isTDD, isDevOps, fetched_data, is_workflow) ==
    IF isTDD /\ ~isDevOps
    THEN any_key_word(IF is_workflow
                      THEN SubSeq(DEVOPS_STR_MATCHES, 1, Len(DEVOPS_STR_MATCHES) - 1)
                      ELSE DEVOPS_STR_MATCHES,
                      fetched_data)
    ELSE isDevOps

\* lines 227-267: the record written for one repository of a page
formatted_repo_record(start, n_days, repo_data, commit_data, workflow_data) ==
    LET record == [dateRange |-> <<<<start, get_date_str(start, n_days)>>>>,
                   totalCommitsInDateRange |-> Len(commit_data),
                   totalRepoCommits |-> repo_data.totalCount,
                   isTDD |-> FALSE,
                   isDevOps |-> FALSE,
                   languages |-> <<>>]
        tdd1 == search_fetched_data_for_tdd_key_words(FALSE, repo_data.topics)
        tdd2 == search_fetched_data_for_tdd_key_words(tdd1, workflow_data)
        tdd3 == search_fetched_data_for_tdd_key_words(tdd2, commit_data)
        dev1 == search_fetched_data_for_devop_key_words(tdd3, FALSE, repo_data.topics, FALSE)
        dev2 == search_fetched_data_for_devop_key_words(tdd3, dev1, workflow_data, TRUE)
        dev3 == search_fetched_data_for_devop_key_words(tdd3, dev2, commit_data, FALSE)
    IN IF DOMAIN repo_data.languages = {}
       THEN record
       ELSE [record EXCEPT
                !.languages = [l \in DOMAIN repo_data.languages |->
                                  [fileSize |-> repo_data.languages[l]]],
                !.isTDD = tdd3,
                !.isDevOps = dev3]

(***************************************************************************)
(* The external data source: responses of the GitHub GraphQL API           *)
(***************************************************************************)
NoCursor == [date |-> NoDate, page |-> 0]

\* FetchGitHubAPI.__init__: page_info = list()
EmptyPageInfo == [tag |-> "list", hasNextPage |-> FALSE, endCursor |-> NoCursor]

PageInfo(has_next_page, end_cursor) ==
    [tag |-> "dict", hasNextPage |-> has_next_page, endCursor |-> end_cursor]

\* FetchGitHubAPI.__init__: response = dict()
EmptyResponse ==
    [status |-> "dict", errors |-> "none", has_data |-> FALSE, edges |-> <<>>,
     repositoryCount |-> 0, pageInfo |-> EmptyPageInfo]

\* a response whose status is not 200
FailedResponse ==
    [status |-> "FAIL", errors |-> "none", has_data |-> FALSE, edges |-> <<>>,
     repositoryCount |-> 0, pageInfo |-> EmptyPageInfo]

\* a 200 response that carries an 'errors' list and no data
ErrorResponse(type) ==
    [status |-> "OK", errors |-> type, has_data |-> FALSE, edges |-> <<>>,
     repositoryCount |-> 0, pageInfo |-> EmptyPageInfo]

\* a 200 response with search data
DataResponse(type, edges, has_next_page, end_cursor) ==
    [status |-> "OK", errors |-> type, has_data |-> TRUE, edges |-> edges,
     repositoryCount |-> Len(edges) + (IF has_next_page THEN 1 ELSE 0),
     pageInfo |-> PageInfo(has_next_page, end_cursor)]

\* a repository node of a search page, with what the data source holds for
\* the repository at that time: the messages its commit-history query and the
\* file names its workflow query return when they succeed
RepoNode(name, committed_date, total, languages, topics, messages, workflow_files) ==
    [nameWithOwner |-> name, committedDate |-> committed_date, totalCount |-> total,
     languages |-> languages, topics |-> topics,
     messages |-> messages, workflow_files |-> workflow_files]

RepoNames == {"alice/repo1", "bob/repo2"}

\* the search pages of a date: edges, hasNextPage
SearchPages(date) ==
    { [edges |-> <<RepoNode("bob/repo2", date + 1, 4, ("Go" :> 2), <<>>, <<>>, <<>>)>>,
       hasNextPage |-> FALSE],
      [edges |-> <<RepoNode("alice/repo1", date, 10, ("Python" :> 5), <<"tdd">>,
                            <<"fix typo">>, <<"ci.yml">>)>>,
       hasNextPage |-> TRUE],
      [edges |-> <<RepoNode("bob/repo2", date, 4, <<>>, <<"tdd">>, <<>>, <<>>),
                   RepoNode("alice/repo1", date, 11, ("Python" :> 6), <<>>,
                            <<"add unit tests">>, <<>>)>>,
       hasNextPage |-> FALSE] }

RepoResponses(date, page) ==
    {FailedResponse, ErrorResponse("RATE_LIMITED"), ErrorResponse("OTHER"),
     DataResponse("RATE_LIMITED",
                  <<RepoNode("alice/repo1", date, 11, ("Python" :> 6), <<>>,
                             <<"add unit tests">>, <<>>)>>,
                  FALSE, [date |-> date, page |-> page])}
    \cup { DataResponse("none", p.edges, p.hasNextPage, [date |-> date, page |-> page]) :
             p \in SearchPages(date) }

\* responses to the commit-history query of a repository: status, 'errors'
\* present, commit messages
CommitResponses(repos_data_arr) ==
    IF repos_data_arr = <<>> THEN {}
    ELSE { [status |-> "OK", errors |-> FALSE, data |-> Head(repos_data_arr).messages],
           [status |-> "FAIL", errors |-> FALSE, data |-> <<>>] }

\* responses to the workflow-file query of a repository: status, 'errors'
\* present, file names
WorkflowResponses(repos_data_arr) ==
    IF repos_data_arr = <<>> THEN {}
    ELSE { [status |-> "OK", errors |-> FALSE, data |-> Head(repos_data_arr).workflow_files],
           [status |-> "FAIL", errors |-> FALSE, data |-> <<>>] }

\* a commit-history or workflow response that is rate-limited: status 200,
\* an 'errors' list with RATE_LIMITED, no data
RateLimitedFetchResponses(repos_data_arr) ==
    IF repos_data_arr = <<>> THEN {}
    ELSE { [status |-> "OK", errors |-> TRUE, data |-> <<>>] }

\* FetchGitHubAPI.is_request_response_status_200_ok
is_request_response_status_200_ok(res) == res.status = "OK"

\* CommitFetchGitHubAPI.query / WorkflowFetchGitHubAPI.query: the list returned
query_result(res) ==
    IF is_request_response_status_200_ok(res) /\ ~res.errors THEN res.data ELSE <<>>

\* RepoFetchGitHubAPI.query: page_info after the response was received
query_page_info(old_page_info, res) ==
    IF is_request_response_status_200_ok(res) /\ res.errors = "none"
    THEN res.pageInfo
    ELSE old_page_info

\* GitHubStatsData.is_rate_limit_exceeded, on the repository-search response
is_rate_limit_exceeded(res) == res.errors = "RATE_LIMITED"

(***************************************************************************)
(* GitHubStatsData: the steps of fetch_repo_data, as functions of the      *)
(* worker's state s (a record of the fetch variables)                      *)
(***************************************************************************)
Cur ==
    [pc |-> pc, day |-> day, attempt |-> attempt, page_iter |-> page_iter,
     response |-> response, page_info |-> page_info,
     repo_stats_data |-> repo_stats_data, todo |-> todo,
     format_from |-> format_from, fetch_attempt |-> fetch_attempt,
     result |-> result, date_range_commit_data |-> date_range_commit_data,
     files |-> files, db_docs |-> db_docs, first_done |-> first_done,
     commit_fetches |-> commit_fetches, workflow_fetches |-> workflow_fetches,
     record_writes |-> record_writes, fetch_ok |-> fetch_ok,
     commit_ok |-> commit_ok, partial_writes |-> partial_writes, tries |-> tries,
     failed_first |-> failed_first, rate_limited_formatted |-> rate_limited_formatted,
     queried |-> queried, pages_today |-> pages_today,
     quota_misjudged |-> quota_misjudged]

Become(s) ==
    /\ pc' = s.pc
    /\ day' = s.day
    /\ attempt' = s.attempt
    /\ page_iter' = s.page_iter
    /\ response' = s.response
    /\ page_info' = s.page_info
    /\ repo_stats_data' = s.repo_stats_data
    /\ todo' = s.todo
    /\ format_from' = s.format_from
    /\ fetch_attempt' = s.fetch_attempt
    /\ result' = s.result
    /\ date_range_commit_data' = s.date_range_commit_data
    /\ files' = s.files
    /\ db_docs' = s.db_docs
    /\ first_done' = s.first_done
    /\ commit_fetches' = s.commit_fetches
    /\ workflow_fetches' = s.workflow_fetches
    /\ record_writes' = s.record_writes
    /\ fetch_ok' = s.fetch_ok
    /\ commit_ok' = s.commit_ok
    /\ partial_writes' = s.partial_writes
    /\ tries' = s.tries
    /\ failed_first' = s.failed_first
    /\ rate_limited_formatted' = s.rate_limited_formatted
    /\ queried' = s.queried
    /\ pages_today' = s.pages_today
    /\ quota_misjudged' = s.quota_misjudged

\* a variant in which every day is given the start date
start_date_str(s) == start_date

\* the date string of the day the loop is at
date_str(s) == get_date_str(start_date, s.day)

\* GitHubStatsData.__init__: repo_stats_data
InitialSnapshot(start) ==
    [tag |-> "doc", dateRange |-> <<<<start, NoDate>>>>, totalRepoCount |-> 0, repos |-> <<>>]

\* one more call counted, up to MaxCount
Counted(n) == IF n < MaxCount THEN n + 1 ELSE n

\* a variant that inserts the snapshot with every file it writes
save_and_insert(s, date, msg) ==
    LET end_date == IF date # NoDate THEN date
                    ELSE get_date_str(start_date, num_days_fetch - 1)
        saved == [s.repo_stats_data EXCEPT !.dateRange[1][2] = end_date]
    IN [s EXCEPT !.repo_stats_data = saved,
                 !.files = @ \cup {[msg |-> msg, date |-> date]},
                 !.db_docs = IF has_db_manager THEN Append(@, saved) ELSE @]

\* GitHubStatsData.save_repo_stats_data
save_repo_stats_data(s, date, msg) ==
    LET end_date == IF date # NoDate THEN date
                    ELSE get_date_str(start_date, num_days_fetch - 1)
        saved == [s.repo_stats_data EXCEPT !.dateRange[1][2] = end_date]
    IN [s EXCEPT !.repo_stats_data = saved,
                 !.files = @ \cup {[msg |-> msg, date |-> date]},
                 !.db_docs = IF msg = COMPLETED_MSG /\ has_db_manager
                             THEN Append(@, saved) ELSE @]

\* GitHubStatsData.pause_api_fetch: checkpoint, then sleep at paused_pc
pause_api_fetch(s, date_paused, paused_pc) ==
    [save_repo_stats_data(s, date_paused, "RATE_LIMIT") EXCEPT !.pc = paused_pc]

\* a variant that never sees an error
api_error_ignored(s) == FALSE

\* GitHubStatsData.data_fetch_api_error_catch: TRUE if it shuts the task down
api_error_caught(s) == ~is_request_response_status_200_ok(s.response)

data_fetch_api_error_catch(s, date_shutdown) ==
    [save_repo_stats_data(s, date_shutdown, "ERROR") EXCEPT
        !.pc = "exit", !.todo = <<>>, !.fetch_attempt = 0, !.result = <<>>,
        !.date_range_commit_data = <<>>]

\* lines 379-380: the window is exhausted
Complete(s) ==
    [save_repo_stats_data(s, NoDate, COMPLETED_MSG) EXCEPT
        !.pc = IF has_db_manager THEN "done" ELSE "exception"]

\* a variant that writes a checkpoint of the day it leaves
next_day_checkpointed(s) ==
    LET t == [save_repo_stats_data(s, date_str(s), "DAY") EXCEPT
                 !.day = s.day + 1, !.attempt = 0, !.page_iter = 0, !.tries = 0,
                 !.failed_first = 0, !.pages_today = 0]
    IN IF t.day < num_days_fetch THEN [t EXCEPT !.pc = "first_page"] ELSE Complete(t)

\* line 347: the next iteration of the loop over days
NextDay(s) ==
    IF s.day + 1 < num_days_fetch
    THEN [s EXCEPT !.pc = "first_page", !.day = s.day + 1, !.attempt = 0, !.page_iter = 0,
                   !.tries = 0, !.failed_first = 0, !.pages_today = 0]
    ELSE Complete([s EXCEPT !.day = s.day + 1, !.attempt = 0, !.page_iter = 0, !.tries = 0,
                            !.failed_first = 0, !.pages_today = 0])

\* lines 366-369: the head of the pagination loop
PaginationLoop(s) ==
    IF /\ s.page_iter < MaxPagesPerDay(num_data_fetched)
       /\ s.page_info # EmptyPageInfo
       /\ s.page_info.hasNextPage
    THEN [s EXCEPT !.pc = "next_page"]
    ELSE NextDay(s)

\* line 363, then the pagination loop
AfterFirstPageLoop(s) ==
    IF api_error_caught(s)
    THEN data_fetch_api_error_catch(s, date_str(s))
    ELSE PaginationLoop(s)

\* line 351: the head of the loop over first-page attempts
FirstPageLoop(s) ==
    IF s.attempt < NUM_API_QUERY_ATTEMPTS
    THEN [s EXCEPT !.pc = "first_page"]
    ELSE AfterFirstPageLoop(s)

\* format_fetched_repo_data_for_stat_analysis has returned
AfterFormat(s) ==
    IF s.format_from = "first"
    THEN AfterFirstPageLoop(
            [s EXCEPT !.repo_stats_data.totalRepoCount = @ + s.response.repositoryCount,
                      !.format_from = "none"])
    ELSE PaginationLoop([s EXCEPT !.format_from = "none"])

\* line 214-215: the repository is fetched and recorded
is_repo_fetched(snapshot, repo_data, fetch_date_str) ==
    /\ repo_data.nameWithOwner \notin (DOMAIN snapshot \ {"tag"})
    /\ repo_data.committedDate = fetch_date_str

RECURSIVE skip_repos(_, _, _)
skip_repos(repos_data_arr, snapshot, fetch_date_str) ==
    IF repos_data_arr = <<>> THEN <<>>
    ELSE IF is_repo_fetched(snapshot, Head(repos_data_arr), fetch_date_str)
         THEN repos_data_arr
         ELSE skip_repos(Tail(repos_data_arr), snapshot, fetch_date_str)

\* line 210: the loop over the repositories of the page
FormatLoop(s) ==
    LET rest == skip_repos(s.todo, s.repo_stats_data, date_str(s))
    IN IF rest = <<>>
       THEN AfterFormat([s EXCEPT !.todo = <<>>])
       ELSE [s EXCEPT !.todo = rest, !.pc = "commit", !.fetch_attempt = 0, !.result = <<>>,
                      !.commit_fetches[Head(rest).nameWithOwner] = Counted(@)]

\* line 209: format_fetched_repo_data_for_stat_analysis is entered
StartFormat(s, from) ==
    LET t == [s EXCEPT !.rate_limited_formatted = @ \/ is_rate_limit_exceeded(s.response)]
    IN IF ~t.response.has_data
       THEN [t EXCEPT !.pc = "exception"]
       ELSE FormatLoop([t EXCEPT !.todo = t.response.edges, !.format_from = from,
                                 !.pages_today = @ + 1])

\* lines 227-267: the record is written, the loop goes to the next repository
WriteRecord(s, actions_workflow_file_data) ==
    LET repo_data == Head(s.todo)
        name == repo_data.nameWithOwner
        record == formatted_repo_record(start_date, num_days_fetch, repo_data,
                                        s.date_range_commit_data, actions_workflow_file_data)
    IN FormatLoop(
         [s EXCEPT !.repo_stats_data.repos = (name :> record) @@ @,
                   !.record_writes[name] = Counted(@),
                   !.partial_writes = IF s.commit_ok /\ s.fetch_ok THEN @ ELSE @ \cup {name},
                   !.todo = Tail(s.todo), !.fetch_attempt = 0, !.result = <<>>,
                   !.date_range_commit_data = <<>>, !.fetch_ok = TRUE, !.commit_ok = TRUE])

\* lines 158-159: fetch_repo_commit_and_actions_data returns
FetchReturn(s, is_workflow) ==
    IF api_error_caught(s)
    THEN data_fetch_api_error_catch(s, date_str(s))
    ELSE IF is_workflow
         THEN WriteRecord(s, s.result)
         ELSE [s EXCEPT !.pc = "workflow", !.date_range_commit_data = s.result,
                        !.commit_ok = s.fetch_ok, !.fetch_attempt = 0, !.result = <<>>,
                        !.workflow_fetches[Head(s.todo).nameWithOwner] = Counted(@)]

\* line 145: the head of the loop over commit / workflow attempts
FetchLoop(s, is_workflow) ==
    IF s.fetch_attempt < NUM_API_QUERY_ATTEMPTS
    THEN [s EXCEPT !.pc = IF is_workflow THEN "workflow" ELSE "commit"]
    ELSE FetchReturn(s, is_workflow)

\* lines 147-157: one attempt of fetch_repo_commit_and_actions_data
FetchAttempt(s, res, is_workflow) ==
    LET t == [s EXCEPT !.result = query_result(res), !.fetch_attempt = @ + 1,
                       !.fetch_ok = is_request_response_status_200_ok(res),
                       !.quota_misjudged =
                           @ \/ /\ is_request_response_status_200_ok(res)
                                /\ res.errors # is_rate_limit_exceeded(s.response)]
    IN IF is_request_response_status_200_ok(res)
       THEN IF is_rate_limit_exceeded(t.response)
            THEN pause_api_fetch(t, date_str(t),
                                 IF is_workflow THEN "paused_workflow" ELSE "paused_commit")
            ELSE FetchReturn(t, is_workflow)
       ELSE FetchLoop(t, is_workflow)

(***************************************************************************)
(* GitHubStatsData.fetch_repo_data: one action per query and per wake-up   *)
(***************************************************************************)
StartDates == {MaxDate}

(***************************************************************************)
(* Producer.publish.  num_days / num_consumers is Python's true division:  *)
(* the quotient, not its floor.  Quotients are kept as fractions num/den;  *)
(* a datetime is a number of days, fraction of the day included.          *)
(***************************************************************************)
MaxTotalDays == 17   \* num_days is 0..MaxTotalDays
MaxConsumers == 5    \* num_consumers is 1..MaxConsumers

Fraction(n, d) == [num |-> n, den |-> d]

\* a / b
true_div(a, b) == Fraction(a, b)

\* x + k and x * k for a fraction x and an int k
frac_add(x, k) == Fraction(x.num + k * x.den, x.den)
frac_mul(x, k) == Fraction(x.num * k, x.den)
frac_sub(x, y) == Fraction(x.num * y.den - y.num * x.den, x.den * y.den)

\* x == k for a fraction x and an int k
frac_is(x, k) == x.num = k * x.den

Min2(a, b) == IF a <= b THEN a ELSE b

\* the calendar day of a datetime (strftime('%Y-%m-%d'))
date_of(t) == t.num \div t.den

\* the day publish starts from, and the times of day it may be called at
PublishDay == MaxTotalDays + 1
PublishStartDates ==
    {Fraction(2 * PublishDay, 2), Fraction(2 * PublishDay + 1, 2)}

\* line 44-45
publish_consumer_start_date ==
    frac_sub(publish_start_date,
             frac_add(frac_mul(true_div(num_days, num_consumers), consumer_id),
                      Min2(consumer_id, num_days % num_consumers)))

\* line 46
publish_consumer_split_num_days ==
    frac_add(true_div(num_days, num_consumers),
             IF num_days % num_consumers > consumer_id THEN 1 ELSE 0)

\* GitHubStatsData.__init__ called with created_before_date=num_days: an int
\* that is not 0 reaches the str concatenation of RepoFetchGitHubAPI.__init__
constructor_raises_type_error(created_before_date) == created_before_date # 0

\* the task the constructor builds
new_task(task_start, days, id) ==
    [start_date_str |-> date_of(task_start), num_days_fetch |-> days, instance_id |-> id]

NoFraction == Fraction(0, 1)

\* no publish is in progress
IdlePublish ==
    /\ num_days = 0
    /\ num_consumers = 1
    /\ publish_start_date = Fraction(PublishDay, 1)
    /\ consumer_id = 0
    /\ consumer_start_date = NoFraction
    /\ consumer_split_num_days = NoFraction
    /\ sent = <<>>
    /\ publish_pc = "idle"

\* no repository is being formatted
NoRecord == [tag |-> "None"]

IdleClassify ==
    /\ classify_pc = "idle"
    /\ fetched_repo = NoRecord
    /\ formatted_record = NoRecord

\* no retrieve_collection is in progress
IdleMerge ==
    /\ db_repo_stats_data = EmptyDict
    /\ existing_data = EmptyDict
    /\ new_data = EmptyDict
    /\ num_docs = 0
    /\ retrieve_pc = "idle"
    /\ existing_data_after = EmptyDict
    /\ result_refs = NoRefs
    /\ dumped_file = EmptyDict
    /\ formatted_repo_data = EmptyDict

\* GitHubStatsData.__init__ and FetchGitHubAPI.__init__
NewTask ==
    /\ day = 0
    /\ attempt = 0
    /\ page_iter = 0
    /\ response = EmptyResponse
    /\ page_info = EmptyPageInfo
    /\ repo_stats_data = InitialSnapshot(start_date)
    /\ todo = <<>>
    /\ format_from = "none"
    /\ fetch_attempt = 0
    /\ result = <<>>
    /\ date_range_commit_data = <<>>
    /\ files = {}
    /\ db_docs = <<>>
    /\ first_done = {}
    /\ commit_fetches = [r \in RepoNames |-> 0]
    /\ workflow_fetches = [r \in RepoNames |-> 0]
    /\ record_writes = [r \in RepoNames |-> 0]
    /\ fetch_ok = TRUE
    /\ commit_ok = TRUE
    /\ partial_writes = {}
    /\ tries = 0
    /\ failed_first = 0
    /\ rate_limited_formatted = FALSE
    /\ queried = <<>>
    /\ pages_today = 0
    /\ quota_misjudged = FALSE

\* no task is running
IdleTask ==
    /\ start_date = MaxDate
    /\ num_days_fetch = 1
    /\ num_data_fetched = MAX_DAILY_REPOS_FETCHED
    /\ has_db_manager = TRUE
    /\ pc = "idle"
    /\ NewTask

(***************************************************************************)
(* DatabaseManager.retrieve_collection                                     *)
(***************************************************************************)
InitMerge ==
    /\ db_repo_stats_data = EmptyDict
    /\ existing_data = EmptyDict
    /\ new_data = EmptyDict
    /\ num_docs = 0
    /\ retrieve_pc = "fold"
    /\ existing_data_after = EmptyDict
    /\ result_refs = NoRefs
    /\ dumped_file = EmptyDict
    /\ formatted_repo_data = EmptyDict
    /\ IdleTask
    /\ IdlePublish
    /\ IdleClassify

\* lines 113-115: the next document of the cursor is merged
RetrieveDoc(doc) ==
    /\ retrieve_pc = "fold"
    /\ num_docs < MaxDocs
    /\ existing_data' = db_repo_stats_data
    /\ new_data' = doc
    /\ db_repo_stats_data' = merge_formatted_stats_data(db_repo_stats_data, doc)
    /\ num_docs' = num_docs + 1
    /\ existing_data_after' = existing_data_after_merge(db_repo_stats_data, doc)
    /\ result_refs' = returned_references(db_repo_stats_data, doc)
    /\ UNCHANGED <<retrieve_pc, dumped_file, formatted_repo_data, task_vars, fetch_vars,
                   publish_vars, classify_vars>>

\* a variant that writes the number of repositories held as the count
dump_with_sample_count(data) ==
    [tag            |-> "doc",
     dateRange      |-> data.dateRange,
     totalRepoCount |-> Cardinality(DOMAIN data.repos),
     repos          |-> data.repos]

\* lines 119-123: the three fields of the dataset that are written to the file
dump_repo_stats_data(data) ==
    [tag            |-> "doc",
     dateRange      |-> data.dateRange,
     totalRepoCount |-> data.totalRepoCount,
     repos          |-> data.repos]

\* lines 117-124: the cursor is exhausted
RetrieveDump ==
    /\ retrieve_pc = "fold"
    /\ retrieve_pc' = CASE db_repo_stats_data.tag = "None"  -> "TypeError"
                        [] db_repo_stats_data.tag = "empty" -> "nothing"
                        [] OTHER -> "dumped"
    /\ dumped_file' = IF IsDoc(db_repo_stats_data)
                      THEN dump_repo_stats_data(db_repo_stats_data)
                      ELSE dumped_file
    /\ UNCHANGED <<db_repo_stats_data, existing_data, new_data, num_docs,
                   existing_data_after, result_refs, formatted_repo_data, task_vars,
                   fetch_vars, publish_vars, classify_vars>>

\* GitHubStatsAnalysis.load_formatted_stats_data: the file retrieve_collection
\* wrote is merged into the dataset of the analysis
LoadFormattedStatsData ==
    /\ retrieve_pc = "dumped"
    /\ formatted_repo_data' = merge_formatted_stats_data(formatted_repo_data, dumped_file)
    /\ retrieve_pc' = "loaded"
    /\ UNCHANGED <<db_repo_stats_data, existing_data, new_data, num_docs,
                   existing_data_after, result_refs, dumped_file, task_vars,
                   fetch_vars, publish_vars, classify_vars>>

NextMerge ==
    \/ \E doc \in StoredDocs : RetrieveDoc(doc)
    \/ RetrieveDump
    \/ LoadFormattedStatsData

SpecMerge == InitMerge /\ [][NextMerge]_vars

(***************************************************************************)
(* A task run of the worker                                                *)
(***************************************************************************)
InitFetch ==
    /\ IdleMerge
    /\ IdlePublish
    /\ IdleClassify
    /\ start_date \in StartDates
    /\ num_days_fetch \in 1..MaxDays
    /\ num_data_fetched \in PageSizes
    /\ has_db_manager \in BOOLEAN
    /\ pc = "first_page"
    /\ NewTask

\* the dates queried so far, the date of the query being issued included
with_query(dates, date) ==
    IF \E i \in DOMAIN dates : dates[i] = date THEN dates ELSE Append(dates, date)

\* lines 352-362: one attempt at the first page of the day; a response that is
\* formatted ends the loop (break), whose counter is not read again
FirstPageQuery(res) ==
    /\ pc = "first_page"
    /\ LET s == [Cur EXCEPT !.response = res,
                            !.page_info = query_page_info(@, res),
                            !.attempt = @ + 1,
                            !.tries = attempt + 1,
                            !.failed_first = IF is_request_response_status_200_ok(res)
                                             THEN @ ELSE @ + 1,
                            !.queried = with_query(@, date_str(Cur))]
       IN Become(IF is_request_response_status_200_ok(res)
                 THEN IF is_rate_limit_exceeded(res)
                      THEN pause_api_fetch(s, date_str(s), "paused_first")
                      ELSE StartFormat([s EXCEPT !.first_done = @ \cup {s.day},
                                                 !.attempt = 0, !.tries = 0,
                                                 !.failed_first = 0], "first")
                 ELSE FirstPageLoop(s))
    /\ UNCHANGED <<merge_vars, task_vars, publish_vars, classify_vars>>

\* lines 372-376: the query of a continuation page
NextPageQuery(res) ==
    /\ pc = "next_page"
    /\ LET s == [Cur EXCEPT !.response = res,
                            !.page_info = query_page_info(@, res),
                            !.page_iter = @ + 1,
                            !.queried = with_query(@, date_str(Cur)),
                            !.tries = IF is_request_response_status_200_ok(res) THEN 0 ELSE 1]
       IN Become(IF api_error_caught(s)
                 THEN data_fetch_api_error_catch(s, date_str(s))
                 ELSE IF is_rate_limit_exceeded(res)
                      THEN pause_api_fetch(s, date_str(s), "paused_page")
                      ELSE StartFormat(s, "page"))
    /\ UNCHANGED <<merge_vars, task_vars, publish_vars, classify_vars>>

\* fetch_repo_commit_and_actions_data(is_workflow=False): one attempt
CommitQuery(res) ==
    /\ pc = "commit"
    /\ Become(FetchAttempt(Cur, res, FALSE))
    /\ UNCHANGED <<merge_vars, task_vars, publish_vars, classify_vars>>

\* fetch_repo_commit_and_actions_data(is_workflow=True): one attempt
WorkflowQuery(res) ==
    /\ pc = "workflow"
    /\ Become(FetchAttempt(Cur, res, TRUE))
    /\ UNCHANGED <<merge_vars, task_vars, publish_vars, classify_vars>>

\* pause_api_fetch line 307-308: the sleep ends and the caller goes on
Resume ==
    /\ pc \in {"paused_first", "paused_page", "paused_commit", "paused_workflow"}
    /\ Become(CASE pc = "paused_first"    -> FirstPageLoop(Cur)
                [] pc = "paused_page"     -> StartFormat(Cur, "page")
                [] pc = "paused_commit"   -> FetchLoop(Cur, FALSE)
                [] pc = "paused_workflow" -> FetchLoop(Cur, TRUE))
    /\ UNCHANGED <<merge_vars, task_vars, publish_vars, classify_vars>>

NextFetch ==
    \/ \E res \in RepoResponses(get_date_str(start_date, day), 1) : FirstPageQuery(res)
    \/ \E res \in RepoResponses(get_date_str(start_date, day), page_info.endCursor.page + 1) :
          NextPageQuery(res)
    \/ \E res \in CommitResponses(todo) : CommitQuery(res)
    \/ \E res \in WorkflowResponses(todo) : WorkflowQuery(res)
    \/ Resume

SpecFetch == InitFetch /\ [][NextFetch]_vars

(***************************************************************************)
(* A one-day task run against a data source that may also rate-limit the   *)
(* commit-history and workflow queries                                     *)
(***************************************************************************)
InitQuota ==
    /\ InitFetch
    /\ num_days_fetch = 1
    /\ has_db_manager = TRUE

NextQuota ==
    \/ NextFetch
    \/ \E res \in RateLimitedFetchResponses(todo) : CommitQuery(res)
    \/ \E res \in RateLimitedFetchResponses(todo) : WorkflowQuery(res)

SpecQuota == InitQuota /\ [][NextQuota]_vars

(***************************************************************************)
(* Producer.publish                                                        *)
(***************************************************************************)
InitPublish ==
    /\ IdleMerge
    /\ IdleTask
    /\ IdleClassify
    /\ num_days \in 0..MaxTotalDays
    /\ num_consumers \in 1..MaxConsumers
    /\ publish_start_date \in PublishStartDates
    /\ consumer_id = 0
    /\ consumer_start_date = NoFraction
    /\ consumer_split_num_days = NoFraction
    /\ sent = <<>>
    /\ publish_pc = "loop"

\* lines 43-57: one iteration of the loop over consumers
PublishTask ==
    /\ publish_pc = "loop"
    /\ consumer_id < num_consumers
    /\ consumer_start_date' = publish_consumer_start_date
    /\ consumer_split_num_days' = publish_consumer_split_num_days
    /\ IF constructor_raises_type_error(num_days)
       THEN /\ publish_pc' = "TypeError"
            /\ UNCHANGED <<sent, consumer_id>>
       ELSE /\ sent' = Append(sent, new_task(publish_consumer_start_date,
                                             publish_consumer_split_num_days, consumer_id))
            /\ consumer_id' = consumer_id + 1
            /\ publish_pc' = IF consumer_id + 1 < num_consumers THEN "loop" ELSE "done"
    /\ UNCHANGED <<num_days, num_consumers, publish_start_date, merge_vars, task_vars,
                   fetch_vars, classify_vars>>

NextPublish == PublishTask

SpecPublish == InitPublish /\ [][NextPublish]_vars

(***************************************************************************)
(* format_fetched_repo_data_for_stat_analysis for one repository of a      *)
(* page, whose commit-history and workflow queries have been answered      *)
(***************************************************************************)
ClassifyTopics == {<<>>, <<"tdd">>, <<"Tdd-kata">>, <<"devops">>}
ClassifyWorkflowFiles == {<<>>, <<"deploy.yml">>, <<"ci.yml">>}
ClassifyMessages == {<<>>, <<"add unit tests">>, <<"fix typo">>}
ClassifyLanguages == {<<>>, ("Go" :> 1)}

InitClassify ==
    /\ IdleMerge
    /\ IdleTask
    /\ IdlePublish
    /\ classify_pc = "format"
    /\ fetched_repo \in
          { RepoNode("alice/repo1", start_date, 3, languages, topics, messages, workflow_files) :
              languages \in ClassifyLanguages, topics \in ClassifyTopics,
              messages \in ClassifyMessages, workflow_files \in ClassifyWorkflowFiles }
    /\ formatted_record = NoRecord

\* lines 227-267: the record of the repository is written
FormatRepo ==
    /\ classify_pc = "format"
    /\ formatted_record' = formatted_repo_record(start_date, num_days_fetch, fetched_repo,
                                                 fetched_repo.messages,
                                                 fetched_repo.workflow_files)
    /\ classify_pc' = "formatted"
    /\ UNCHANGED <<fetched_repo, merge_vars, task_vars, fetch_vars, publish_vars>>

NextClassify == FormatRepo

SpecClassify == InitClassify /\ [][NextClassify]_vars

(***************************************************************************)
(* Properties of merge, stated on the last call of the fold:               *)
(* existing_data and new_data are its arguments, db_repo_stats_data is     *)
(* the value it returned.                                                  *)
(***************************************************************************)
\* two descending ranges (start, end) share a calendar date
RangesShareDate(a, b) ==
    \E d \in 0..MaxDate : /\ a[2] <= d /\ d <= a[1]
                          /\ b[2] <= d /\ d <= b[1]

SomeRangesShareDate(as, bs) ==
    \E i \in DOMAIN as : \E j \in DOMAIN bs : RangesShareDate(as[i], bs[j])

\* the last call had a non-empty existing dataset
MergedIntoExisting == num_docs > 0 /\ IsDoc(existing_data)

\* the last call took the acceptance branch
LastMergeAccepted ==
    MergedIntoExisting /\ merge_branch(existing_data, new_data) = "merged"

\* C1: with a non-empty existing dataset, if some incoming range shares a date
\* with some existing range, merge returns the existing dataset, field for field.
C1_RejectionReturnsExisting ==
    (MergedIntoExisting /\ SomeRangesShareDate(existing_data.dateRange, new_data.dateRange))
        => db_repo_stats_data = existing_data

\* C2: merge takes its acceptance branch only if no incoming top-level range
\* shares a calendar date with any existing top-level range.
C2_AcceptedOnlyIfDisjoint ==
    LastMergeAccepted
        => ~SomeRangesShareDate(existing_data.dateRange, new_data.dateRange)

\* C3: on an accepted merge the result's top-level dateRange is the existing
\* ranges followed by the incoming ranges.
C3_AcceptedAppendsIncomingRanges ==
    LastMergeAccepted
        => db_repo_stats_data.dateRange = existing_data.dateRange \o new_data.dateRange

\* the incoming record's start date is strictly more recent than every date of
\* the existing record's ranges, as they were before the merge
IncomingMoreRecent(existing_repo, new_repo) ==
    \A i \in DOMAIN existing_repo.dateRange :
        /\ new_repo.dateRange[1][1] > existing_repo.dateRange[i][1]
        /\ new_repo.dateRange[1][1] > existing_repo.dateRange[i][2]

\* C4: accepted merge, repository in both datasets, per-repo ranges disjoint: if
\* the incoming start date is more recent than every existing date, the result
\* has the incoming totalRepoCommits and the incoming languages entries;
\* otherwise it keeps the existing values.
C4_MoreRecentOverwrites ==
    LastMergeAccepted =>
        \A r \in DOMAIN existing_data.repos \cap DOMAIN new_data.repos :
            LET e == existing_data.repos[r]
                n == new_data.repos[r]
                m == db_repo_stats_data.repos[r]
            IN ~SomeRangesShareDate(e.dateRange, n.dateRange) =>
                 IF IncomingMoreRecent(e, n)
                 THEN /\ m.totalRepoCommits = n.totalRepoCommits
                      /\ \A l \in DOMAIN n.languages :
                            l \in DOMAIN m.languages /\ m.languages[l] = n.languages[l]
                 ELSE /\ m.totalRepoCommits = e.totalRepoCommits
                      /\ m.languages = e.languages

\* C9: a repository with isTDD (or isDevOps) true in the canonical dataset still
\* has the flag true in the dataset the fold holds after the next merge.
C9_FlagsStickyAcrossMerges ==
    MergedIntoExisting =>
        \A r \in DOMAIN existing_data.repos :
            /\ existing_data.repos[r].isTDD =>
                 /\ IsDoc(db_repo_stats_data)
                 /\ r \in DOMAIN db_repo_stats_data.repos
                 /\ db_repo_stats_data.repos[r].isTDD
            /\ existing_data.repos[r].isDevOps =>
                 /\ IsDoc(db_repo_stats_data)
                 /\ r \in DOMAIN db_repo_stats_data.repos
                 /\ db_repo_stats_data.repos[r].isDevOps

(***************************************************************************)
(* Properties of merge: algebraic laws and frame conditions                *)
(***************************************************************************)
\* C13: a task delivered twice and completed twice persists the same document
\* twice; folding both gives the dataset that folding one gives.
C13_RedeliveryFoldsToSame ==
    (num_docs = 2 /\ IsDoc(existing_data) /\ new_data = existing_data)
        => db_repo_stats_data = existing_data

\* the statistics of a dataset: everything but the date ranges
StatsOf(d) ==
    IF ~IsDoc(d) THEN d
    ELSE [totalRepoCount |-> d.totalRepoCount,
          repos |-> [r \in DOMAIN d.repos |->
                       [totalCommitsInDateRange |-> d.repos[r].totalCommitsInDateRange,
                        totalRepoCommits |-> d.repos[r].totalRepoCommits,
                        isTDD |-> d.repos[r].isTDD,
                        isDevOps |-> d.repos[r].isDevOps,
                        languages |-> d.repos[r].languages]]]

\* the fold of the same two documents taken in the other order
FoldedInOtherOrder ==
    merge_formatted_stats_data(merge_formatted_stats_data(EmptyDict, new_data), existing_data)

\* C14: two snapshots with disjoint top-level ranges fold to the same
\* totalRepoCount, repositories and per-repository statistics in either order.
C14_FoldOrderIndependent ==
    ( /\ num_docs = 2
      /\ IsDoc(existing_data)
      /\ ~SomeRangesShareDate(existing_data.dateRange, new_data.dateRange) )
        => StatsOf(db_repo_stats_data) = StatsOf(FoldedInOtherOrder)

\* C15: after merge the caller's existing snapshot equals its value
\* before the call, and the result shares no object with the inputs.
C15_MergeHasNoSideEffects ==
    num_docs > 0
        => /\ existing_data_after = existing_data
           /\ result_refs.object \notin {"existing_data", "new_data"}
           /\ result_refs.repos = {}

\* C16: the date-range test gives the same answer whichever of two descending
\* ranges is taken as the incoming one.
C16_ValidityTestSymmetric ==
    MergedIntoExisting
        => \A i \in DOMAIN existing_data.dateRange : \A j \in DOMAIN new_data.dateRange :
              is_date_range_valid(<<existing_data.dateRange[i]>>, new_data.dateRange[j])
                  = is_date_range_valid(<<new_data.dateRange[j]>>, existing_data.dateRange[i])

\* C17: merge(empty, S) returns S unchanged, for an absent (None) or empty
\* existing dataset.
C17_MergeIntoEmptyReturnsIncoming ==
    (num_docs > 0 /\ ~IsDoc(existing_data)) => db_repo_stats_data = new_data

\* both kinds of empty existing dataset have been merged into
C17_AbsentExistingMerged ==
    /\ num_docs > 1
    /\ existing_data = NoneValue
    /\ IsDoc(new_data)
    /\ db_repo_stats_data = new_data

DisjointSnapshotsMerged ==
    /\ MergedIntoExisting
    /\ ~SomeRangesShareDate(existing_data.dateRange, new_data.dateRange)
    /\ DOMAIN existing_data.repos \cap DOMAIN new_data.repos = {}

\* C18: for disjoint top-level ranges and disjoint repository keys the merged
\* totalRepoCount is the sum of the two counts and every repository of either
\* input is in the result with its source record.
C18_DisjointMergeKeepsBoth ==
    DisjointSnapshotsMerged
        => /\ IsDoc(db_repo_stats_data)
           /\ db_repo_stats_data.totalRepoCount =
                 existing_data.totalRepoCount + new_data.totalRepoCount
           /\ DOMAIN db_repo_stats_data.repos =
                 DOMAIN existing_data.repos \cup DOMAIN new_data.repos
           /\ \A r \in DOMAIN existing_data.repos :
                 db_repo_stats_data.repos[r] = existing_data.repos[r]
           /\ \A r \in DOMAIN new_data.repos :
                 db_repo_stats_data.repos[r] = new_data.repos[r]

\* two snapshots with different repositories have been merged
C18_TwoRepositoriesMerged ==
    /\ DisjointSnapshotsMerged
    /\ DOMAIN existing_data.repos # {}
    /\ DOMAIN new_data.repos # {}
    /\ Cardinality(DOMAIN db_repo_stats_data.repos) = 2

\* C19: accepted merge, repository in both snapshots, per-repo ranges disjoint:
\* totalCommitsInDateRange is the sum, the per-repo dateRange is the existing
\* ranges followed by the incoming ranges, each flag is the OR of the two.
C19_SharedRepoAccumulates ==
    LastMergeAccepted =>
        \A r \in DOMAIN existing_data.repos \cap DOMAIN new_data.repos :
            LET e == existing_data.repos[r]
                n == new_data.repos[r]
                m == db_repo_stats_data.repos[r]
            IN ~SomeRangesShareDate(e.dateRange, n.dateRange) =>
                 /\ m.totalCommitsInDateRange =
                       e.totalCommitsInDateRange + n.totalCommitsInDateRange
                 /\ m.dateRange = e.dateRange \o n.dateRange
                 /\ m.isTDD = (e.isTDD \/ n.isTDD)
                 /\ m.isDevOps = (e.isDevOps \/ n.isDevOps)

\* counters 3 and 2 have given 5 with two ranges, and a flag was set by the OR
C19_ThreePlusTwoCommits ==
    /\ LastMergeAccepted
    /\ "alice/repo1" \in DOMAIN existing_data.repos \cap DOMAIN new_data.repos
    /\ ~SomeRangesShareDate(existing_data.repos["alice/repo1"].dateRange,
                            new_data.repos["alice/repo1"].dateRange)
    /\ existing_data.repos["alice/repo1"].totalCommitsInDateRange = 3
    /\ new_data.repos["alice/repo1"].totalCommitsInDateRange = 2
    /\ db_repo_stats_data.repos["alice/repo1"].totalCommitsInDateRange = 5
    /\ Len(db_repo_stats_data.repos["alice/repo1"].dateRange) = 2
    /\ ~existing_data.repos["alice/repo1"].isTDD
    /\ db_repo_stats_data.repos["alice/repo1"].isTDD

\* C20: accepted merge, repository in both snapshots, some incoming per-repo
\* range shares a date with an existing per-repo range: the repository's
\* record is left as it was.
C20_OverlappingRepoUntouched ==
    LastMergeAccepted =>
        \A r \in DOMAIN existing_data.repos \cap DOMAIN new_data.repos :
            SomeRangesShareDate(existing_data.repos[r].dateRange, new_data.repos[r].dateRange)
                => db_repo_stats_data.repos[r] = existing_data.repos[r]

\* the first two snapshots of the fold come from workers whose windows are
\* adjacent: one top-level range ends the day after the other begins
AdjacentWindowsMerged ==
    /\ num_docs = 2
    /\ IsDoc(existing_data)
    /\ \/ existing_data.dateRange[1][2] = new_data.dateRange[1][1] + 1
       \/ new_data.dateRange[1][2] = existing_data.dateRange[1][1] + 1

\* C34: two snapshots of workers with adjacent windows are merged: a repository
\* recorded in both has totalCommitsInDateRange equal to the sum of the two
\* counters and carries both per-repository ranges.
C34_AdjacentWindowsAccumulate ==
    AdjacentWindowsMerged
        => \A r \in DOMAIN existing_data.repos \cap DOMAIN new_data.repos :
              /\ r \in DOMAIN db_repo_stats_data.repos
              /\ db_repo_stats_data.repos[r].totalCommitsInDateRange
                    = existing_data.repos[r].totalCommitsInDateRange
                        + new_data.repos[r].totalCommitsInDateRange
              /\ \A w \in {existing_data.repos[r].dateRange[1], new_data.repos[r].dateRange[1]} :
                    \E i \in DOMAIN db_repo_stats_data.repos[r].dateRange :
                        db_repo_stats_data.repos[r].dateRange[i] = w

\* C36: after a snapshot has been accepted into a non-empty dataset, merging a
\* snapshot with the same date range again leaves totalRepoCount and every
\* repository record as they were.
C36_AcceptedSnapshotRejectedAgain ==
    [][ ( /\ LastMergeAccepted
          /\ num_docs' = num_docs + 1
          /\ new_data'.dateRange = new_data.dateRange )
            => /\ db_repo_stats_data'.totalRepoCount = db_repo_stats_data.totalRepoCount
               /\ db_repo_stats_data'.repos = db_repo_stats_data.repos ]_vars

\* the store held one completed snapshot, which has been retrieved and loaded
OneSnapshotLoaded == retrieve_pc = "loaded" /\ num_docs = 1

\* C39: with exactly one completed snapshot in the store, the dataset loaded
\* for analysis has the dateRange, totalRepoCount and repos of that snapshot, so
\* the sample size is its number of repositories and the population count its
\* totalRepoCount.
C39_LoadedDatasetIsTheSnapshot ==
    OneSnapshotLoaded
        => /\ IsDoc(formatted_repo_data)
           /\ formatted_repo_data.dateRange = new_data.dateRange
           /\ formatted_repo_data.totalRepoCount = new_data.totalRepoCount
           /\ formatted_repo_data.repos = new_data.repos
           /\ Cardinality(DOMAIN formatted_repo_data.repos)
                 = Cardinality(DOMAIN new_data.repos)

\* a snapshot of two repositories has been retrieved and loaded
C39_TwoRepositoriesLoaded ==
    /\ OneSnapshotLoaded
    /\ Cardinality(DOMAIN new_data.repos) = 2
    /\ new_data.totalRepoCount = 2

(***************************************************************************)
(* Properties of a task run                                                *)
(***************************************************************************)
ErrorCheckpoint(d) == [msg |-> "ERROR", date |-> get_date_str(start_date, d)]

\* C5: within one task run each repository key triggers at most one
\* commit-history fetch, one workflow fetch and one write of its record.
C5_EachRepoFetchedOnce ==
    \A r \in RepoNames :
        /\ commit_fetches[r] <= 1
        /\ workflow_fetches[r] <= 1
        /\ record_writes[r] <= 1

\* C6: every day the loop has moved past had a first-page response that was
\* OK and not rate-limited passed to formatting, unless the task ended with
\* an ERROR checkpoint for that day.
C6_NoDaySkippedByRateLimit ==
    pc # "idle" =>
        \A d \in 0..(day - 1) : d \in first_done \/ ErrorCheckpoint(d) \in files

\* C7 as stated: the task ends with an ERROR checkpoint only after 3 attempts
\* of the repository query that failed, first page or continuation page.
C7_ErrorOnlyAfterThreeAttempts ==
    pc = "exit" => tries = NUM_API_QUERY_ATTEMPTS

\* C8: a repository record is written only after its commit-history query and
\* its workflow-file query have both been answered with an OK response.
C8_RecordOnlyAfterBothQueriesOk ==
    partial_writes = {}

\* C10: in the worker's snapshot a repository's isTDD and isDevOps flags never
\* change from true to false during a task run.
C10_FlagsNeverReset ==
    [][ \A r \in DOMAIN repo_stats_data.repos :
            /\ repo_stats_data.repos[r].isTDD => repo_stats_data'.repos[r].isTDD
            /\ repo_stats_data.repos[r].isDevOps => repo_stats_data'.repos[r].isDevOps
      ]_vars

CompleteCheckpoint == [msg |-> COMPLETED_MSG, date |-> NoDate]

\* C21: if all NUM_API_QUERY_ATTEMPTS attempts at a day's first-page query get
\* a non-OK status, the task has written an ERROR checkpoint dated with that
\* day and has ended: it takes no further step, so it issues no request,
\* writes no COMPLETE checkpoint and inserts nothing.
C21_AllAttemptsFailedEndsInError ==
    /\ [](failed_first = NUM_API_QUERY_ATTEMPTS =>
            /\ pc = "exit"
            /\ ErrorCheckpoint(day) \in files
            /\ CompleteCheckpoint \notin files
            /\ db_docs = <<>>)
    /\ [][failed_first # NUM_API_QUERY_ATTEMPTS]_vars

\* the three attempts at the first page of the second day have failed
C21_SecondDayFailed ==
    /\ failed_first = NUM_API_QUERY_ATTEMPTS
    /\ day = 1
    /\ pc = "exit"
    /\ ErrorCheckpoint(1) \in files
    /\ ErrorCheckpoint(0) \notin files

\* C22: a response carrying a RATE_LIMITED error, on a first page or on a
\* continuation page, is never passed to record formatting.
C22_RateLimitedNeverFormatted ==
    rate_limited_formatted = FALSE

\* C23: after the pause of a rate-limited continuation-page query the task
\* issues the query again, for the same day and with the same cursor.
C23_RateLimitedPageRequeried ==
    [][pc = "paused_page" => (pc' = "next_page" /\ day' = day /\ page_info' = page_info)]_vars

\* C24: the days of a task run are queried from the most recent to the
\* oldest, one calendar day apart, beginning at the start date, and a run
\* that has completed has queried exactly num_days_fetch days.
C24_DaysQueriedInDescendingOrder ==
    /\ \A i \in DOMAIN queried : queried[i] = start_date - (i - 1)
    /\ Len(queried) <= num_days_fetch
    /\ CompleteCheckpoint \in files => Len(queried) = num_days_fetch

\* a run of more than one day has completed
C24_TwoDaysCompleted ==
    /\ CompleteCheckpoint \in files
    /\ num_days_fetch = MaxDays
    /\ Len(queried) = MaxDays
    /\ queried[1] = start_date
    /\ queried[MaxDays] < start_date

\* C26: the result pages processed for one day, the first page included, are
\* at most ceil(MAX_DAILY_REPOS_FETCHED / page size).
C26_PagesPerDayCapped ==
    pages_today <= MaxPagesPerDay(num_data_fetched)

\* C27 as stated: every day the loop has moved past has a checkpoint: a file
\* written for that day, or the COMPLETE file for the last day.
C27_CheckpointForEveryDay ==
    \A d \in 0..(day - 1) :
        \/ \E f \in files : f.date = get_date_str(start_date, d)
        \/ (d = num_days_fetch - 1 /\ CompleteCheckpoint \in files)

\* C27: advancing the day cursor persists nothing.  The snapshot is written
\* only on a rate-limit pause, on an error shutdown and once after the last
\* day: a step that moves to the next day writes no file, except the COMPLETE
\* file when the day left was the last one.
C27_NoCheckpointWhenDayAdvances ==
    /\ [](\A f \in files : f.msg \in {"RATE_LIMIT", "ERROR", COMPLETED_MSG})
    /\ [][day' # day =>
            IF day' < num_days_fetch
            THEN files' = files
            ELSE files' = files \cup {CompleteCheckpoint}]_vars

\* the first day's repositories are in the snapshot, the loop is at the
\* second day, and nothing was written
C27_DayLeftWithoutCheckpoint ==
    /\ day = 1
    /\ pc = "first_page"
    /\ DOMAIN repo_stats_data.repos # {}
    /\ files = {}

\* C28: a task run inserts its snapshot at most once, and only with the
\* COMPLETE checkpoint written after the last day; as long as only RATE_LIMIT
\* and ERROR checkpoints are written nothing is inserted, and no run writes
\* both an ERROR and a COMPLETE checkpoint.
C28_InsertOnlyAtCompletion ==
    /\ Len(db_docs) <= 1
    /\ db_docs # <<>> =>
          /\ CompleteCheckpoint \in files
          /\ day = num_days_fetch
          /\ db_docs[1] = repo_stats_data
    /\ ~(CompleteCheckpoint \in files /\ \E f \in files : f.msg = "ERROR")

\* a run that was paused by a rate limit has completed and inserted
C28_PausedRunInserted ==
    /\ Len(db_docs) = 1
    /\ CompleteCheckpoint \in files
    /\ \E f \in files : f.msg = "RATE_LIMIT"
    /\ pc = "done"

\* the repository a record of the snapshot was written for: the node of the
\* search results with that name and total commit count, committed on the
\* day it was searched for
RepositoryOf(name, total) ==
    CHOOSE n \in UNION { {p.edges[i] : i \in DOMAIN p.edges} : p \in SearchPages(start_date) } :
        /\ n.nameWithOwner = name
        /\ n.totalCount = total
        /\ n.committedDate = start_date

\* some TDD key word occurs in a topic, a workflow file name or an in-window
\* commit message of the repository
HasTDDEvidence(n) ==
    \/ any_key_word(TDD_STR_MATCHES, n.topics)
    \/ any_key_word(TDD_STR_MATCHES, n.workflow_files)
    \/ any_key_word(TDD_STR_MATCHES, n.messages)

\* C30: a recorded repository has isTDD = true exactly when it has at least
\* one language and some TDD key word occurs in one of its topics, workflow
\* file names or in-window commit messages; without languages both flags are
\* false.
C30_TDDExactlyWhenEvidence ==
    \A r \in DOMAIN repo_stats_data.repos :
        LET rec == repo_stats_data.repos[r]
            n == RepositoryOf(r, rec.totalRepoCommits)
        IN /\ rec.isTDD = (DOMAIN n.languages # {} /\ HasTDDEvidence(n))
           /\ DOMAIN n.languages = {} => (~rec.isTDD /\ ~rec.isDevOps)

\* C31: a RATE_LIMITED error in the response to a commit-history or workflow
\* query is followed by a RATE_LIMIT checkpoint and a pause, and a response
\* to such a query without that error is not: the decision is taken from the
\* query's own response, whatever the last repository-search response was.
C31_FetchQuotaSeenInOwnResponse ==
    quota_misjudged = FALSE

\* C32: a continuation query issued for a day carries a cursor that a
\* response for that same day returned.
C32_CursorOfSameDay ==
    pc = "next_page" => page_info.endCursor.date = get_date_str(start_date, day)

\* Consumer.consume, lines 33-36: the task is unpickled from the message and
\* run as it is; init_db is never called on it, so it has no db manager
run_by_consumer == ~has_db_manager

\* Consumer.consume, lines 37-38: an Exception raised by fetch_repo_data is
\* caught and the message is negatively acknowledged
negative_acknowledge == pc = "exception"

\* C37: when a task run by a consumer has written its COMPLETE checkpoint, the
\* consumer does not negatively acknowledge the message.
C37_CompletedTaskNotRedelivered ==
    (run_by_consumer /\ CompleteCheckpoint \in files) => ~negative_acknowledge

\* the run takes no further step: fetch_repo_data has returned, the process
\* has exited, or an exception has left fetch_repo_data
RunEnded == pc \in {"done", "exit", "exception"}

\* C38: a task run that takes no further step has written its COMPLETE
\* checkpoint or an ERROR checkpoint.
C38_RunEndsInDoneOrFatalError ==
    RunEnded => \/ CompleteCheckpoint \in files
                \/ \E d \in 0..(MaxDays - 1) : ErrorCheckpoint(d) \in files

(***************************************************************************)
(* Properties of the classification of a repository                       *)
(***************************************************************************)
\* the repository's only evidence is the workflow file deploy.yml, next to
\* the given topics
OnlyDeployYml(topics) ==
    /\ classify_pc = "formatted"
    /\ DOMAIN fetched_repo.languages # {}
    /\ fetched_repo.workflow_files = <<"deploy.yml">>
    /\ fetched_repo.messages = <<>>
    /\ fetched_repo.topics = topics

\* C25: a repository whose only evidence is the workflow file deploy.yml ends
\* with isDevOps = true if a topic containing 'TDD' established isTDD, and
\* with isDevOps = false without any TDD evidence.
C25_DeployYmlNeedsTDD ==
    /\ OnlyDeployYml(<<"tdd">>) => (formatted_record.isTDD /\ formatted_record.isDevOps)
    /\ OnlyDeployYml(<<>>) => ~formatted_record.isDevOps

\* every repository record with isDevOps also has isTDD
FlagsConsistent(d) ==
    IsDoc(d) => \A r \in DOMAIN d.repos : d.repos[r].isDevOps => d.repos[r].isTDD

\* the snapshot of a one-day task that recorded the formatted repository
FormattedSnapshot ==
    [tag            |-> "doc",
     dateRange      |-> <<<<start_date, get_date_str(start_date, num_days_fetch - 1)>>>>,
     totalRepoCount |-> 1,
     repos          |-> (fetched_repo.nameWithOwner :> formatted_record)]

\* C29: in a worker snapshot, and in every result of merging such snapshots,
\* each repository record with isDevOps = true also has isTDD = true.
C29_DevOpsImpliesTDD ==
    /\ \A doc \in StoredDocs : FlagsConsistent(doc)
    /\ classify_pc = "formatted" =>
          /\ FlagsConsistent(FormattedSnapshot)
          /\ \A doc \in StoredDocs :
                /\ FlagsConsistent(merge_formatted_stats_data(doc, FormattedSnapshot))
                /\ FlagsConsistent(merge_formatted_stats_data(FormattedSnapshot, doc))
                /\ \A other \in StoredDocs :
                      FlagsConsistent(
                          merge_formatted_stats_data(
                              merge_formatted_stats_data(doc, FormattedSnapshot), other))

\* a DevOps repository was recorded, and merging its snapshot into a stored
\* one turned that one's record of the repository into a DevOps record
C29_DevOpsRecordMerged ==
    /\ classify_pc = "formatted"
    /\ formatted_record.isDevOps
    /\ formatted_record.isTDD
    /\ \E doc \in StoredDocs :
          /\ fetched_repo.nameWithOwner \in DOMAIN doc.repos
          /\ ~doc.repos[fetched_repo.nameWithOwner].isDevOps
          /\ LET merged == merge_formatted_stats_data(doc, FormattedSnapshot)
             IN /\ IsDoc(merged)
                /\ merged.repos[fetched_repo.nameWithOwner].isDevOps
                /\ merged.repos[fetched_repo.nameWithOwner].isTDD

(***************************************************************************)
(* Properties of publish                                                   *)
(***************************************************************************)
\* floor(totalDays / workerCount), plus 1 for the first totalDays mod workerCount workers
ExpectedDays(i) ==
    (num_days \div num_consumers) + (IF i < num_days % num_consumers THEN 1 ELSE 0)

RECURSIVE DaysBefore(_)
DaysBefore(i) == IF i = 0 THEN 0 ELSE DaysBefore(i - 1) + ExpectedDays(i - 1)

PublishEnded == publish_pc \in {"done", "TypeError"}

\* the consumer the locals of the last iteration were computed for
LastConsumer == IF publish_pc = "TypeError" THEN consumer_id ELSE consumer_id - 1

\* C11: worker i is assigned floor(totalDays / workerCount) days, plus 1 if
\* i < totalDays mod workerCount: every block size publish computes is that
\* whole number, and when publish ends every worker has been sent its block.
C11_BlockSizes ==
    /\ (publish_pc # "idle" /\ LastConsumer >= 0)
          => frac_is(consumer_split_num_days, ExpectedDays(LastConsumer))
    /\ PublishEnded
          => /\ Len(sent) = num_consumers
             /\ \A i \in 1..Len(sent) : frac_is(sent[i].num_days_fetch, ExpectedDays(i - 1))

\* C12: when publish ends, worker i has been sent the start date that lies
\* the block sizes of workers 0..i-1 before the global start date.
C12_StartDates ==
    PublishEnded
        => /\ Len(sent) = num_consumers
           /\ \A i \in 1..Len(sent) :
                 sent[i].start_date_str = date_of(publish_start_date) - DaysBefore(i - 1)

\* the top-level range of the snapshot a worker writes when it completes the
\* task: [start, start - (n - 1)] for a block of n whole days
CompletedRange(task) ==
    <<task.start_date_str,
      task.start_date_str - ((task.num_days_fetch.num \div task.num_days_fetch.den) - 1)>>

\* C33: when publish ends every worker has a block of whole days, and the
\* top-level ranges of the completed snapshots of two distinct workers share
\* no date, so that merge accepts either of them after the other.
C33_WorkerRangesDisjoint ==
    PublishEnded
        => /\ Len(sent) = num_consumers
           /\ \A i \in 1..Len(sent) :
                 sent[i].num_days_fetch.num % sent[i].num_days_fetch.den = 0
           /\ \A i, j \in 1..Len(sent) :
                 i # j =>
                    /\ ~ \E d \in 0..(PublishDay + 1) :
                            /\ CompletedRange(sent[i])[2] <= d /\ d <= CompletedRange(sent[i])[1]
                            /\ CompletedRange(sent[j])[2] <= d /\ d <= CompletedRange(sent[j])[1]
                    /\ is_date_range_valid(<<CompletedRange(sent[i])>>, CompletedRange(sent[j]))

\* the days a worker walks for a task: __init__ caps the block at
\* MAX_DAYS_FETCHED, and range(num_days_fetch) raises TypeError for a block
\* that is a float, as every quotient of a true division is
WalkedDays(task) ==
    IF task.num_days_fetch \in [num : Int, den : Int] THEN {}
    ELSE { task.start_date_str - d :
             d \in 0..(Min2(task.num_days_fetch, MAX_DAYS_FETCHED) - 1) }

\* C35: when publish ends, every day of the global window
\* [start, start - (totalDays - 1)] is walked by exactly one worker.
C35_EveryDayWalkedOnce ==
    PublishEnded
        => \A d \in 0..(num_days - 1) :
              Cardinality({ i \in 1..Len(sent) :
                              date_of(publish_start_date) - d \in WalkedDays(sent[i]) }) = 1

====
